---------------------------- MODULE Spec2Model ----------------------------
(* ScriptGrammar (src/resources/js/ScriptGrammar.js): compiles the "where"   *)
(* clauses of a query into one predicate function and evaluates it against  *)
(* the values a column resolver returns.                                    *)
EXTENDS Integers, Sequences, FiniteSets, TLC

(***************************************************************************)
(* JavaScript values.  Every value is a record of one shape: t is the type  *)
(* tag, n the number (numbers only), s the string as a sequence of char     *)
(* codes (strings only).                                                    *)
(***************************************************************************)
JSNull == [t |-> "null", n |-> 0, s |-> <<>>]

JSUndefined == [t |-> "undefined", n |-> 0, s |-> <<>>]

JSNaN == [t |-> "NaN", n |-> 0, s |-> <<>>]

Num(k) == [t |-> "number", n |-> k, s |-> <<>>]

Str(chars) == [t |-> "string", n |-> 0, s |-> chars]

EmptyString == Str(<<>>)

\* The string "1" (char code 49).
StrOne == Str(<<49>>)

\* typeof-style type of a value: NaN is a number.
TypeOf(v) == IF v.t = "NaN" THEN "number" ELSE v.t

IsDigit(c) == c >= 48 /\ c <= 57

RECURSIVE DigitsValue(_, _)
DigitsValue(chars, acc) ==
    IF chars = <<>> THEN acc
    ELSE DigitsValue(Tail(chars), 10 * acc + (Head(chars) - 48))

\* ToNumber, as the comparisons of whereBasic apply it to their operands.
ToNumber(v) ==
    CASE v.t = "null" -> Num(0)
      [] v.t = "undefined" -> JSNaN
      [] v.t = "number" -> v
      [] v.t = "NaN" -> JSNaN
      [] v.t = "string" ->
            IF v.s = <<>> THEN Num(0)
            ELSE IF \A i \in 1..Len(v.s) : IsDigit(v.s[i])
                 THEN Num(DigitsValue(v.s, 0))
                 ELSE JSNaN

\* x === y: the comparison Array.prototype.indexOf uses; NaN equals nothing.
StrictEquals(x, y) == x.t # "NaN" /\ x = y

\* x == y (loose equality) over null, undefined, numbers and strings.
LooseEquals(x, y) ==
    IF TypeOf(x) = TypeOf(y) THEN StrictEquals(x, y)
    ELSE IF x.t \in {"null", "undefined"} /\ y.t \in {"null", "undefined"} THEN TRUE
    ELSE IF TypeOf(x) = "number" /\ y.t = "string" THEN StrictEquals(x, ToNumber(y))
    ELSE IF x.t = "string" /\ TypeOf(y) = "number" THEN StrictEquals(ToNumber(x), y)
    ELSE FALSE

RECURSIVE StringLess(_, _)
StringLess(a, b) ==
    IF b = <<>> THEN FALSE
    ELSE IF a = <<>> THEN TRUE
    ELSE IF Head(a) # Head(b) THEN Head(a) < Head(b)
    ELSE StringLess(Tail(a), Tail(b))

\* The abstract relational comparison x < y: "true", "false" or "undefined"
\* (an operand that converts to NaN).
LessThan(x, y) ==
    IF x.t = "string" /\ y.t = "string"
    THEN (IF StringLess(x.s, y.s) THEN "true" ELSE "false")
    ELSE LET nx == ToNumber(x)
             ny == ToNumber(y)
         IN  IF nx.t = "NaN" \/ ny.t = "NaN" THEN "undefined"
             ELSE IF nx.n < ny.n THEN "true" ELSE "false"

\* arr.indexOf(x): the 0-based index of the first element === x, or -1.
IndexOf(arr, x) ==
    LET hits == {i \in 1..Len(arr) : StrictEquals(arr[i], x)}
    IN  IF hits = {} THEN -1
        ELSE (CHOOSE i \in hits : \A j \in hits : i <= j) - 1


(***************************************************************************)
(* Bounds and input domains.                                                *)
(***************************************************************************)
\* Longest clause sequence of a multi-clause query.
MaxClauses == 3

\* Longest `values` array of an In / NotIn clause.
MaxValues == 2

Columns == {"a", "b"}

Values == {JSNull, JSUndefined, EmptyString, StrOne, Num(1), JSNaN}

\* The values the resolvers of the model return for each column.
ColumnValues(c) == IF c = "a" THEN Values ELSE {JSNull, Num(1)}

Resolvers == {r \in [Columns -> Values] : \A c \in Columns : r[c] \in ColumnValues(c)}

\* The comparison operators whereBasic recognises, and one it does not.
Operators == {"=", "!=", "<>", ">", ">=", "<", "<="}

UnknownOperator == "like"

\* The clause kinds with a where<Kind> method, and one without.
Kinds == {"Basic", "In", "NotIn", "Null", "NotNull"}

UnknownKind == "Raw"

\* The connectives the reducer recognises, and one it does not.
Connectives == {"and", "or"}

UnknownConnective == "xor"

Where(type, boolean, col, operator, value, values) ==
    [type |-> type, boolean |-> boolean, column |-> col,
     operator |-> operator, value |-> value, values |-> values]

ValueArrays == UNION {[1..n -> Values] : n \in 0..MaxValues}

\* Clauses of the multi-clause queries: every connective, a nullness test, a
\* comparison, a comparison with an unrecognised operator, an unknown kind.
FoldClauses ==
    {Where(k[1], b, k[2], k[3], Num(1), <<>>) :
        b \in Connectives \cup {UnknownConnective},
        k \in {<<"Null", "a", "">>, <<"Basic", "b", "=">>,
               <<"Basic", "a", UnknownOperator>>, <<UnknownKind, "a", "">>}}

\* Clauses of the single-clause queries: every kind with its whole payload.
SingleClauses ==
    {Where("Basic", "and", "a", o, v, <<>>) :
        o \in Operators \cup {UnknownOperator}, v \in Values}
    \cup {Where(k, "and", c, "", JSUndefined, vs) :
        k \in {"In", "NotIn"}, c \in Columns, vs \in ValueArrays}
    \cup {Where(k, "and", c, "", JSUndefined, <<>>) :
        k \in {"Null", "NotNull"}, c \in Columns}

\* A query: hasWheres is FALSE when the `wheres` field is absent.
Queries ==
    {[hasWheres |-> FALSE, wheres |-> <<>>]}
    \cup {[hasWheres |-> TRUE, wheres |-> ws] :
            ws \in UNION {[1..n -> FoldClauses] : n \in 0..MaxClauses}}
    \cup {[hasWheres |-> TRUE, wheres |-> <<w>>] : w \in SingleClauses}

\* options.columnResolver of the constructor: given, or left out.
Options ==
    {[given |-> TRUE, columnResolver |-> r] : r \in Resolvers}
    \cup {[given |-> FALSE, columnResolver |-> [c \in Columns |-> JSUndefined]]}

(***************************************************************************)
(* State.                                                                   *)
(***************************************************************************)
VARIABLES
    query,          \* the query descriptor the caller compiles
    columnResolver, \* this.columnResolver
    installed,      \* the resolver most recently handed to the grammar
    predicate,      \* the compiled predicate the caller holds
    op,             \* the last operation: new, setColumnResolver, compile, predicate
    returned,       \* what the last operation returned (or the error it threw)
    result,         \* what the last invocation of the predicate returned
    changed,        \* the last invocation's result differs from the one before
    calls,          \* the resolver calls of the last operation, in order
    errors          \* the console.error output of the last operation

vars == <<query, columnResolver, installed, predicate, op, returned, result,
          changed, calls, errors>>

\* function() { return null; }
DefaultResolver == [c \in Columns |-> JSNull]

(***************************************************************************)
(* Compiled callbacks.  A closure is the record of what it captured: fn     *)
(* names the method that made it, "undefined" is the value undefined.       *)
(***************************************************************************)
Closure(fn, where) ==
    [fn |-> fn, column |-> where.column, operator |-> where.operator,
     value |-> where.value, values |-> where.values]

UndefinedCallback ==
    [fn |-> "undefined", column |-> "", operator |-> "", value |-> JSUndefined,
     values |-> <<>>]

\* column(name): the closure calls the resolver installed when it is invoked.
column(name) == columnResolver[name]

\* whereBasic: the switch has no default, so an unrecognised operator returns
\* undefined.
whereBasic(q, where) ==
    IF where.operator \in Operators THEN Closure("whereBasic", where)
    ELSE UndefinedCallback

whereIn(q, where) == Closure("whereIn", where)

whereNotIn(q, where) == Closure("whereNotIn", where)

whereNull(q, where) == Closure("whereNull", where)

whereNotNull(q, where) == Closure("whereNotNull", where)

\* The body of the closure whereBasic returns, on the column value c.
BasicBody(operator, c, value) ==
    CASE operator = "="  -> LooseEquals(c, value)
      [] operator = "!=" -> ~LooseEquals(c, value)
      [] operator = "<>" -> ~LooseEquals(c, value)
      [] operator = ">"  -> LessThan(value, c) = "true"
      [] operator = ">=" -> LessThan(c, value) = "false"
      [] operator = "<"  -> LessThan(c, value) = "true"
      [] operator = "<=" -> LessThan(value, c) = "false"

InBody(values, c) == IndexOf(values, c) >= 0

NotInBody(values, c) == IndexOf(values, c) = -1

NullBody(c) == IndexOf(<<EmptyString, JSNull>>, c) >= 0

NotNullBody(c) == IndexOf(<<EmptyString, JSNull>>, c) = -1

\* What a callback returns when the column value it reads is c.
CallbackBody(cb, c) ==
    CASE cb.fn = "whereBasic"   -> BasicBody(cb.operator, c, cb.value)
      [] cb.fn = "whereIn"      -> InBody(cb.values, c)
      [] cb.fn = "whereNotIn"   -> NotInBody(cb.values, c)
      [] cb.fn = "whereNull"    -> NullBody(c)
      [] cb.fn = "whereNotNull" -> NotNullBody(c)

JSBool(b) == IF b THEN "true" ELSE "false"

(***************************************************************************)
(* compileWheresToArray, compileWheres, evaluateWhereClauses.               *)
(***************************************************************************)
\* this['where' + type]: the method's name, or "undefined".
Method(type) == IF type \in Kinds THEN "where" \o type ELSE "undefined"

\* callback.call(this, query, where) for a method that exists.
CallMethod(m, q, where) ==
    CASE m = "whereBasic"   -> whereBasic(q, where)
      [] m = "whereIn"      -> whereIn(q, where)
      [] m = "whereNotIn"   -> whereNotIn(q, where)
      [] m = "whereNull"    -> whereNull(q, where)
      [] m = "whereNotNull" -> whereNotNull(q, where)

\* A variant that guards the call: a clause of an unknown kind is logged and
\* stored with an undefined callback.
compileWheresToArrayGuarded(q) ==
    LET ws == q.wheres
        unknown == {i \in 1..Len(ws) : Method(ws[i].type) = "undefined"}
    IN  [thrown |-> FALSE,
         errors |-> IF unknown = {} THEN <<>> ELSE <<"not defined", "not a function">>,
         clauses |-> [i \in 1..Len(ws) |->
                        [boolean |-> ws[i].boolean,
                         callback |-> IF i \in unknown THEN UndefinedCallback
                                      ELSE CallMethod(Method(ws[i].type), q, ws[i])]]]

\* query.wheres.map(...): the clauses in order; at the first clause whose kind
\* has no method both console.error lines are written and callback.call throws
\* a TypeError, which ends the map.
compileWheresToArray(q) ==
    LET ws == q.wheres
        unknown == {i \in 1..Len(ws) : Method(ws[i].type) = "undefined"}
    IN  IF unknown # {}
        THEN LET k == CHOOSE i \in unknown : \A j \in unknown : i <= j
             IN  [thrown |-> TRUE,
                  errors |-> <<"Method ScriptGrammar::where" \o ws[k].type
                                  \o "() is not defined.",
                               "Method ScriptGrammar::where" \o ws[k].type
                                  \o "() is not a function.">>,
                  clauses |-> <<>>]
        ELSE [thrown |-> FALSE,
              errors |-> <<>>,
              clauses |-> [i \in 1..Len(ws) |->
                              [boolean |-> ws[i].boolean,
                               callback |-> CallMethod(Method(ws[i].type), q, ws[i])]]]

NoPredicate == [kind |-> "none", clauses |-> <<>>]

\* function() { return true }
AlwaysTrue == [kind |-> "true", clauses |-> <<>>]

\* evaluateWhereClauses: the closure over the compiled clauses.
evaluateWhereClauses(q, clauses) == [kind |-> "reduce", clauses |-> clauses]

\* A variant without the early return for a query that has no clauses.
compileWheresNoGuard(q) ==
    LET arr == compileWheresToArray(q)
    IN  [thrown |-> arr.thrown, errors |-> arr.errors,
         predicate |-> IF arr.thrown THEN NoPredicate
                       ELSE evaluateWhereClauses(q, arr.clauses)]

compileWheres(q) ==
    IF ~q.hasWheres \/ Len(q.wheres) = 0
    THEN [thrown |-> FALSE, errors |-> <<>>, predicate |-> AlwaysTrue]
    ELSE LET arr == compileWheresToArray(q)
         IN  IF arr.thrown
             THEN [thrown |-> TRUE, errors |-> arr.errors, predicate |-> NoPredicate]
             ELSE IF Len(arr.clauses) = 0
             THEN [thrown |-> FALSE, errors |-> arr.errors, predicate |-> AlwaysTrue]
             ELSE [thrown |-> FALSE, errors |-> arr.errors,
                   predicate |-> evaluateWhereClauses(q, arr.clauses)]

(***************************************************************************)
(* Invoking the compiled predicate.                                         *)
(***************************************************************************)
Truthy(v) == v = "true"

\* result && value, result || value
JSAnd(a, b) == IF Truthy(a) THEN b ELSE a

JSOr(a, b) == IF Truthy(a) THEN a ELSE b

\* The reducer of evaluateWhereClauses on one clause.  acc.result is the
\* accumulator ("null" before the first clause); acc.calls the resolver calls
\* so far; acc.thrown is set when calling an undefined callback throws.
reducer(acc, clause) ==
    IF acc.thrown THEN acc
    ELSE IF clause.callback.fn = "undefined"
    THEN [acc EXCEPT !.thrown = TRUE]
    ELSE LET c == column(clause.callback.column)
             value == JSBool(CallbackBody(clause.callback, c))
             called == Append(acc.calls, [name |-> clause.callback.column, value |-> c])
         IN  IF acc.result = "null"
             THEN [result |-> value, calls |-> called, thrown |-> FALSE]
             ELSE [result |-> CASE clause.boolean = "and" -> JSAnd(acc.result, value)
                                [] clause.boolean = "or" -> JSOr(acc.result, value)
                                [] OTHER -> "undefined",
                   calls |-> called, thrown |-> FALSE]

RECURSIVE reduce(_, _)
reduce(clauses, acc) ==
    IF clauses = <<>> THEN acc
    ELSE reduce(Tail(clauses), reducer(acc, Head(clauses)))

\* predicate(): what the call returns, the resolver calls it makes, and
\* whether it throws.
CallPredicate(p) ==
    IF p.kind = "true" THEN [result |-> "true", calls |-> <<>>, thrown |-> FALSE]
    ELSE reduce(p.clauses, [result |-> "null", calls |-> <<>>, thrown |-> FALSE])

(***************************************************************************)
(* Operations.                                                              *)
(***************************************************************************)
\* new ScriptGrammar(options)
Init ==
    \E q \in Queries, o \in Options :
        /\ query = q
        /\ columnResolver = (IF o.given THEN o.columnResolver ELSE DefaultResolver)
        /\ installed = (IF o.given THEN o.columnResolver ELSE DefaultResolver)
        /\ predicate = NoPredicate
        /\ op = "new"
        /\ returned = "this"
        /\ result = "none"
        /\ changed = FALSE
        /\ calls = <<>>
        /\ errors = <<>>

\* A variant that returns this without storing the resolver.
setColumnResolverDropped(resolver) ==
    /\ installed' = resolver
    /\ op' = "setColumnResolver"
    /\ returned' = "this"
    /\ calls' = <<>>
    /\ errors' = <<>>
    /\ UNCHANGED <<query, columnResolver, predicate, result, changed>>

setColumnResolver(resolver) ==
    /\ columnResolver' = resolver
    /\ installed' = resolver
    /\ op' = "setColumnResolver"
    /\ returned' = "this"
    /\ calls' = <<>>
    /\ errors' = <<>>
    /\ UNCHANGED <<query, predicate, result, changed>>

\* compile(query): the caller keeps the predicate it held when compile throws.
compile ==
    LET r == compileWheres(query)
    IN  /\ op' = "compile"
        /\ returned' = (IF r.thrown THEN "TypeError" ELSE "function")
        /\ predicate' = (IF r.thrown THEN predicate ELSE r.predicate)
        /\ result' = (IF r.thrown THEN result ELSE "none")
        /\ changed' = (IF r.thrown THEN changed ELSE FALSE)
        /\ errors' = r.errors
        /\ calls' = <<>>
        /\ UNCHANGED <<query, columnResolver, installed>>

\* predicate(): one invocation of the predicate the caller holds.
invoke ==
    /\ predicate.kind # "none"
    /\ LET out == CallPredicate(predicate)
           value == IF out.thrown THEN "TypeError" ELSE out.result
       IN  /\ op' = "predicate"
           /\ returned' = value
           /\ result' = value
           /\ changed' = (result # "none" /\ result # value)
           /\ calls' = out.calls
           /\ errors' = <<>>
    /\ UNCHANGED <<query, columnResolver, installed, predicate>>

Next ==
    \/ \E r \in Resolvers : setColumnResolver(r)
    \/ compile
    \/ invoke

Spec == Init /\ [][Next]_vars

(***************************************************************************)
(* Properties.                                                              *)
(***************************************************************************)
NoClauses(q) == ~q.hasWheres \/ Len(q.wheres) = 0

HasUnknownKind(q) == \E i \in 1..Len(q.wheres) : q.wheres[i].type = UnknownKind

HasUnknownOperator(q) ==
    \E i \in 1..Len(q.wheres) :
        q.wheres[i].type = "Basic" /\ q.wheres[i].operator = UnknownOperator

HasUnknownConnective(q) ==
    \E i \in 2..Len(q.wheres) : q.wheres[i].boolean = UnknownConnective

AllConnectivesKnown(q) ==
    \A i \in 1..Len(q.wheres) : q.wheres[i].boolean \in Connectives

\* The query is one clause of the given kind.
SingleOf(q, kind) == q.hasWheres /\ Len(q.wheres) = 1 /\ q.wheres[1].type = kind

\* (((v1 op2 v2) op3 v3) ... opn vn) over the first n clauses, where v[i] is
\* the boolean of clause i and ops[i] its connective; ops[1] is not used.
RECURSIVE LeftFold(_, _, _)
LeftFold(v, ops, n) ==
    IF n = 1 THEN v[1]
    ELSE IF ops[n] = "and" THEN LeftFold(v, ops, n - 1) /\ v[n]
    ELSE LeftFold(v, ops, n - 1) \/ v[n]

\* The value of each clause's evaluator when the resolver is r.
EvaluatorValues(clauses, r) ==
    [i \in 1..Len(clauses) |->
        CallbackBody(clauses[i].callback, r[clauses[i].callback.column])]

ConnectivesOf(clauses) == [i \in 1..Len(clauses) |-> clauses[i].boolean]

AllDefined(p) ==
    \A i \in 1..Len(p.clauses) : p.clauses[i].callback.fn # "undefined"

\* C1: for a query whose wheres is absent or empty, compile returns a
\* predicate, every invocation of it returns true, whatever resolver is
\* installed, and no operation ever calls the resolver.
C1_EmptyWheresAlwaysTrue ==
    NoClauses(query) =>
        /\ calls = <<>>
        /\ op = "compile" => returned = "function" /\ predicate.kind # "none"
        /\ op = "predicate" => returned = "true" /\ result = "true"

C1_Witness ==
    /\ NoClauses(query)
    /\ op = "predicate"
    /\ result = "true"
    /\ columnResolver # DefaultResolver

\* C2: with connectives all 'and' or 'or', one invocation of the compiled
\* predicate returns the flat left-associative fold of the clause values under
\* each clause's own connective.
C2_FlatLeftFold ==
    (op = "predicate" /\ predicate.kind = "reduce" /\ AllConnectivesKnown(query)) =>
        /\ returned \in {"true", "false"}
        /\ (returned = "true") =
              LeftFold(EvaluatorValues(predicate.clauses, installed),
                       ConnectivesOf(predicate.clauses), Len(predicate.clauses))

\* C2, for the queries whose Basic operators are all recognised; here the
\* connective of the first clause is unconstrained.
C2_FlatLeftFold_RecognisedOperators ==
    (op = "predicate" /\ predicate.kind = "reduce" /\ AllDefined(predicate)
        /\ ~HasUnknownConnective(query)) =>
        /\ returned \in {"true", "false"}
        /\ (returned = "true") =
              LeftFold(EvaluatorValues(predicate.clauses, installed),
                       ConnectivesOf(predicate.clauses), Len(predicate.clauses))

\* A reachable case of (a OR b) AND c that differs from a OR (b AND c).
C2_NoPrecedence_Witness ==
    /\ op = "predicate"
    /\ Len(query.wheres) = 3
    /\ query.wheres[2].boolean = "or"
    /\ query.wheres[3].boolean = "and"
    /\ AllDefined(predicate)
    /\ LET v == EvaluatorValues(predicate.clauses, installed)
       IN  v[1] /\ ~v[3]
    /\ returned = "false"

\* C3: one invocation of a predicate over n clauses invokes every clause
\* evaluator exactly once, in clause order: its resolver calls are the n
\* clause columns, in order.
C3_EagerEvaluation ==
    (op = "predicate" /\ predicate.kind = "reduce") =>
        /\ Len(calls) = Len(query.wheres)
        /\ \A i \in 1..Len(calls) : calls[i].name = query.wheres[i].column

\* C3, for the queries whose Basic operators are all recognised.
C3_EagerEvaluation_RecognisedOperators ==
    (op = "predicate" /\ predicate.kind = "reduce" /\ AllDefined(predicate)) =>
        /\ Len(calls) = Len(query.wheres)
        /\ \A i \in 1..Len(calls) : calls[i].name = query.wheres[i].column

\* A reachable AND query whose first clause is false and whose second clause
\* is still evaluated.
C3_NoShortCircuit_Witness ==
    /\ op = "predicate"
    /\ Len(query.wheres) = 2
    /\ query.wheres[2].boolean = "and"
    /\ AllDefined(predicate)
    /\ ~EvaluatorValues(predicate.clauses, installed)[1]
    /\ Len(calls) = 2

\* C4: every value an invocation reads comes from the resolver most recently
\* installed (by the constructor or setColumnResolver), a one-clause predicate
\* returns that clause's value under that resolver, and setColumnResolver
\* returns the grammar itself.
C4_LateBinding ==
    /\ columnResolver = installed
    /\ op = "setColumnResolver" => returned = "this"
    /\ op = "predicate" =>
          \A i \in 1..Len(calls) : calls[i].value = installed[calls[i].name]
    /\ (op = "predicate" /\ Len(predicate.clauses) = 1 /\ AllDefined(predicate)) =>
          returned = JSBool(EvaluatorValues(predicate.clauses, installed)[1])

\* The same predicate, invoked again after the resolver was replaced, returns
\* another result than before.
C4_Witness ==
    /\ op = "predicate"
    /\ changed
    /\ calls # <<>>
    /\ returned \in {"true", "false"}

\* C5: compiling a query with a Basic clause of an unrecognised operator
\* fails, and no compiled predicate holds a clause with an undefined evaluator.
C5_UnknownOperatorFailsCompile ==
    /\ (op = "compile" /\ HasUnknownOperator(query)) => returned = "TypeError"
    /\ AllDefined(predicate)

\* C6: compiling a query with a clause of an unknown kind reports the error
\* and fails during compilation, wherever the clause is: no predicate is
\* returned and the resolver is not called.
C6_UnknownKindFailsCompile ==
    HasUnknownKind(query) =>
        /\ predicate = NoPredicate
        /\ op # "predicate"
        /\ op = "compile" =>
              /\ returned = "TypeError"
              /\ Len(errors) = 2
              /\ errors[1] = "Method ScriptGrammar::whereRaw() is not defined."
              /\ calls = <<>>

\* The unknown kind is the last of three clauses, after a Basic clause with an
\* unrecognised operator.
C6_Witness ==
    /\ op = "compile"
    /\ returned = "TypeError"
    /\ Len(query.wheres) = 3
    /\ query.wheres[3].type = UnknownKind
    /\ query.wheres[1].type # UnknownKind
    /\ query.wheres[2].type # UnknownKind

\* C7: compiling a query with an unknown connective after the first clause
\* fails, and no invocation of a compiled predicate returns a value other
\* than true or false.
C7_UnknownConnectiveFailsCompile ==
    /\ (op = "compile" /\ HasUnknownConnective(query)) => returned = "TypeError"
    /\ (op = "predicate" /\ returned # "TypeError") => returned \in {"true", "false"}

\* C8: a single In clause is true iff the resolved value is a member of
\* `values`, and a single NotIn clause is its negation.
C8_InIsMembership ==
    LET w == query.wheres[1]
        member == \E i \in 1..Len(w.values) : w.values[i] = installed[w.column]
    IN  /\ (op = "predicate" /\ SingleOf(query, "In")) => returned = JSBool(member)
        /\ (op = "predicate" /\ SingleOf(query, "NotIn")) => returned = JSBool(~member)

\* C8, for resolved values other than NaN.
C8_InIsMembership_ExceptNaN ==
    LET w == query.wheres[1]
        member == \E i \in 1..Len(w.values) : w.values[i] = installed[w.column]
    IN  /\ (op = "predicate" /\ SingleOf(query, "In") /\ installed[w.column] # JSNaN)
              => returned = JSBool(member)
        /\ (op = "predicate" /\ SingleOf(query, "NotIn") /\ installed[w.column] # JSNaN)
              => returned = JSBool(~member)

\* C9: a single Null clause is true iff the resolved value is the empty
\* string, null or absent (undefined), and a single NotNull clause iff it is
\* none of them.
C9_NullIsEmptyOrAbsent ==
    LET w == query.wheres[1]
        empty == installed[w.column] \in {EmptyString, JSNull, JSUndefined}
    IN  /\ (op = "predicate" /\ SingleOf(query, "Null")) => returned = JSBool(empty)
        /\ (op = "predicate" /\ SingleOf(query, "NotNull")) => returned = JSBool(~empty)

\* C9, with undefined not counted as absent.
C9_NullIsEmptyOrNull ==
    LET w == query.wheres[1]
        empty == installed[w.column] \in {EmptyString, JSNull}
    IN  /\ (op = "predicate" /\ SingleOf(query, "Null")) => returned = JSBool(empty)
        /\ (op = "predicate" /\ SingleOf(query, "NotNull")) => returned = JSBool(~empty)

\* C10: compile calls the resolver zero times; the resolver is called only by
\* an invocation of the predicate, and every invocation calls it once for
\* every clause and reads the value the resolver returns at that time.
C10_LazyCompilation ==
    /\ op # "predicate" => calls = <<>>
    /\ (op = "predicate" /\ predicate.kind = "reduce") =>
          /\ Len(calls) = Len(predicate.clauses)
          /\ \A i \in 1..Len(calls) : calls[i].value = columnResolver[calls[i].name]

\* C10, for the queries whose Basic operators are all recognised.
C10_LazyCompilation_RecognisedOperators ==
    /\ op # "predicate" => calls = <<>>
    /\ (op = "predicate" /\ predicate.kind = "reduce" /\ AllDefined(predicate)) =>
          /\ Len(calls) = Len(predicate.clauses)
          /\ \A i \in 1..Len(calls) : calls[i].value = columnResolver[calls[i].name]

=============================================================================
